---------------------------- MODULE Spec2Model ----------------------------
(***************************************************************************)
(* A model of py_voat/classes.py: the AuthToken holder (construction,      *)
(* the expiring token property, the headers property) and the lazy,        *)
(* memoized relations of Submission, Subverse and Comment.                 *)
(*                                                                         *)
(* One object is under test at a time (self).  Every operation appends     *)
(* its outcome to history: the value returned or the exception raised,     *)
(* the call it made on the Voat handle (if any) and the clock reading.     *)
(***************************************************************************)
EXTENDS Integers, Sequences, FiniteSets, TLC

VARIABLES
    now,        \* the clock, time.time()
    self,       \* the object under test, None before construction
    history,    \* the outcomes of the operations performed so far
    nextId      \* the identity the next object allocated at run time gets

vars == <<now, self, history, nextId>>

---------------------------------------------------------------------------
(* Bounds of the model.                                                    *)

MaxTime == 3        \* the clock runs from 0 to MaxTime
MaxOps == 4         \* operations performed on one object, construction included

---------------------------------------------------------------------------
(* Python values.  Every value is a record tagged with its type, so that   *)
(* values of different types are comparable (and different).  A str is a   *)
(* sequence of characters; a list carries the identity (id) of the list    *)
(* object, so that "the identical object" differs from "an equal one".     *)

None == [t |-> "None"]
PyInt(n) == [t |-> "int", v |-> n]
PyFloat(n) == [t |-> "float", v |-> n]
PyBool(b) == [t |-> "bool", v |-> b]
PyStr(s) == [t |-> "str", v |-> s]
PyList(i, items) == [t |-> "list", id |-> i, v |-> items]
NoAttrs == [a \in {} |-> None]
PyObject(cls, i, attrs) == [t |-> "object", cls |-> cls, id |-> i, _attrs |-> attrs]
Voat == [t |-> "Voat"]

\* bool(x): the truth value of a Python value
Truthy(x) ==
    CASE x.t = "None" -> FALSE
      [] x.t = "int" -> x.v # 0
      [] x.t = "float" -> x.v # 0
      [] x.t = "bool" -> x.v
      [] x.t = "str" -> x.v # <<>>
      [] x.t = "list" -> x.v # <<>>
      [] OTHER -> TRUE

\* The identity given to the objects a caller supplies (keyword arguments,
\* assigned values); the objects allocated at run time get 1, 2, ...
Supplied == 0

---------------------------------------------------------------------------
(* Outcomes.                                                               *)

NoCall == <<>>

\* op: the operation; arg: its argument (None when it has none); kind, value,
\* exc: what it returned or raised; call: the call it made on the handle
\* (NoCall when none): the method, its arguments and, last, what the handle
\* answered; at: the clock when it ran.
Returned(op, arg, value, call, time) ==
    [op |-> op, arg |-> arg, kind |-> "return", value |-> value, exc |-> "",
     call |-> call, at |-> time]

Raised(op, arg, exc, call, time) ==
    [op |-> op, arg |-> arg, kind |-> "raise", value |-> None, exc |-> exc,
     call |-> call, at |-> time]

---------------------------------------------------------------------------
(* Strings: str.isdigit, int(str), str.capitalize, str.format.             *)

\* Characters of the strings offered as expiry_date.  "U+00B2" stands for
\* the one character SUPERSCRIPT TWO: str.isdigit() accepts it (its Unicode
\* Numeric_Type is Digit) and int() rejects it (it is not a decimal digit).
DecimalChars == {"0", "2"}
SuperscriptTwo == "U+00B2"

DecimalValue(c) == IF c = "2" THEN 2 ELSE 0

\* str.isdigit(): non-empty and every character a digit
isdigit(s) ==
    /\ s # <<>>
    /\ \A i \in 1..Len(s) : s[i] \in DecimalChars \cup {SuperscriptTwo}

\* int(s) raises ValueError unless every character is a decimal digit
IntParses(s) == s # <<>> /\ \A i \in 1..Len(s) : s[i] \in DecimalChars

RECURSIVE IntOfStr(_)
IntOfStr(s) ==
    IF s = <<>> THEN 0
    ELSE 10 * IntOfStr(SubSeq(s, 1, Len(s) - 1)) + DecimalValue(s[Len(s)])

Lowers == <<"a", "b", "e", "r">>
Uppers == <<"A", "B", "E", "R">>
upper(c) == IF \E i \in 1..4 : Lowers[i] = c
            THEN Uppers[CHOOSE i \in 1..4 : Lowers[i] = c] ELSE c
lower(c) == IF \E i \in 1..4 : Uppers[i] = c
            THEN Lowers[CHOOSE i \in 1..4 : Uppers[i] = c] ELSE c

\* capitalize that leaves the rest of the string as it is
capitalize_first_only(s) == [i \in 1..Len(s) |-> IF i = 1 THEN upper(s[i]) ELSE s[i]]

\* str.capitalize(): the first character upper-cased, the rest lower-cased
capitalize(s) == [i \in 1..Len(s) |-> IF i = 1 THEN upper(s[i]) ELSE lower(s[i])]

\* "{} {}".format(a, b) for two strs
format(a, b) == a \o <<" ">> \o b

---------------------------------------------------------------------------
(* AuthToken.                                                              *)

\* isinstance(x, int)
IsInt(x) == x.t \in {"int", "bool"}

\* AuthToken.__init__: the object built (None when it raises) and the outcome
AuthToken_init(username, token, token_type, expiry_date, time) ==
    LET args == [t |-> "args",
                 v |-> [username |-> username, token |-> token,
                        token_type |-> token_type, expiry_date |-> expiry_date]]
    IN
    IF expiry_date.t = "str" /\ isdigit(expiry_date.v) /\ ~IntParses(expiry_date.v)
    THEN [self |-> None,
          out |-> Raised("__init__", args, "ValueError", NoCall, time)]
    ELSE LET e == IF expiry_date.t = "str" /\ isdigit(expiry_date.v)
                  THEN PyInt(IntOfStr(expiry_date.v))
                  ELSE expiry_date
         IN  IF ~IsInt(e)
             THEN [self |-> None,
                   out |-> Raised("__init__", args, "VoatBadExpiry", NoCall, time)]
             ELSE [self |-> [t |-> "AuthToken",
                             username |-> username,
                             expiry_date |-> e,
                             gotten_at |-> time,
                             token_type |-> token_type,
                             _token |-> token],
                   out |-> Returned("__init__", args, None, NoCall, time)]

\* Expired with > for >=: readable in the very second the window closes
Expired_strict(obj, time) == time > obj.gotten_at + obj.expiry_date.v

\* the test of the token getter: time.time() >= self.gotten_at + self.expiry_date
Expired(obj, time) == time >= obj.gotten_at + obj.expiry_date.v

\* AuthToken.token (getter)
AuthToken_token(obj, time) ==
    IF Expired(obj, time)
    THEN Raised("token", None, "VoatExpiredToken", NoCall, time)
    ELSE Returned("token", None, obj._token, NoCall, time)

\* AuthToken.token (setter)
AuthToken_token_set(obj, val) == [obj EXCEPT !._token = val]

\* AuthToken.headers: token_type.capitalize() is evaluated, then self.token
AuthToken_headers(obj, time) ==
    LET tt == capitalize(obj.token_type.v)
        tok == AuthToken_token(obj, time)
    IN  IF tok.kind = "raise"
        THEN Raised("headers", None, tok.exc, NoCall, time)
        ELSE Returned("headers", None,
                      [t |-> "dict", v |-> [Authorization |-> PyStr(format(tt, tok.value.v))]],
                      NoCall, time)

\* Inputs offered to the constructor: ints, strs of decimal digits, strs
\* that str.isdigit() accepts and int() rejects, other strs, None, a float
ExpiryStrings ==
    {<<>>, <<"0">>, <<"2">>, <<"2", "0">>, <<"0", "2">>,
     <<SuperscriptTwo>>, <<"2", SuperscriptTwo>>, <<"a">>, <<"2", "a">>}

ExpiryValues ==
    {PyInt(n) : n \in -1..2} \cup {PyStr(x) : x \in ExpiryStrings}
    \cup {None, PyFloat(2)}

Tokens == {PyStr(<<"t", "1">>), PyStr(<<"t", "2">>)}
TokenTypes == {PyStr(<<"b", "e", "a", "r", "e", "r">>), PyStr(<<"B", "E", "A", "R">>)}
Username == PyStr(<<"a">>)

IsAuthToken == self.t = "AuthToken"

Tick ==
    /\ now < MaxTime
    /\ now' = now + 1
    /\ UNCHANGED <<self, history, nextId>>

AuthTokenInit ==
    /\ history = <<>>
    /\ \E token \in Tokens, token_type \in TokenTypes, expiry_date \in ExpiryValues :
         LET r == AuthToken_init(Username, token, token_type, expiry_date, now)
         IN  /\ self' = r.self
             /\ history' = <<r.out>>
    /\ UNCHANGED <<now, nextId>>

TokenGet ==
    /\ IsAuthToken
    /\ Len(history) < MaxOps
    /\ history' = Append(history, AuthToken_token(self, now))
    /\ UNCHANGED <<now, self, nextId>>

TokenSet ==
    /\ IsAuthToken
    /\ Len(history) < MaxOps
    /\ \E val \in Tokens :
         /\ self' = AuthToken_token_set(self, val)
         /\ history' = Append(history, Returned("token=", val, None, NoCall, now))
    /\ UNCHANGED <<now, nextId>>

HeadersGet ==
    /\ IsAuthToken
    /\ Len(history) < MaxOps
    /\ history' = Append(history, AuthToken_headers(self, now))
    /\ UNCHANGED <<now, self, nextId>>

---------------------------------------------------------------------------
(* VoatObject: an attribute bag.                                           *)

hasattr(obj, name) == name \in DOMAIN obj._attrs

\* getattr(obj, name, default)
getattr(obj, name, default) == IF hasattr(obj, name) THEN obj._attrs[name] ELSE default

\* a plain instance attribute is set
setfield(obj, name, val) ==
    LET old == obj._attrs
    IN  [obj EXCEPT !._attrs =
            [a \in (DOMAIN old) \cup {name} |-> IF a = name THEN val ELSE old[a]]]

\* the setters of the properties: Submission.comments, Subverse.posts
Submission_comments_set(obj, val) == setfield(obj, "_comments", val)
Subverse_posts_set(obj, val) == setfield(obj, "_posts", val)

\* setattr(obj, name, val): a property with a setter takes the assignment
setattr(obj, name, val) ==
    IF obj.cls = "Submission" /\ name = "comments" THEN Submission_comments_set(obj, val)
    ELSE IF obj.cls = "Subverse" /\ name = "posts" THEN Subverse_posts_set(obj, val)
    ELSE setfield(obj, name, val)

\* VoatObject.__init__: kwargs is the sequence of the <<name, value>> pairs
RECURSIVE VoatObject_init(_, _)
VoatObject_init(obj, kwargs) ==
    IF kwargs = <<>> THEN obj
    ELSE VoatObject_init(setattr(obj, kwargs[1][1], kwargs[1][2]), Tail(kwargs))

\* Submission.__init__
Submission_init(i, kwargs) ==
    setfield(VoatObject_init(PyObject("Submission", i, NoAttrs), kwargs), "_comments", None)

\* Subverse(**kwargs), Comment(**kwargs): VoatObject.__init__ alone
Subverse_init(i, kwargs) == VoatObject_init(PyObject("Subverse", i, NoAttrs), kwargs)
Comment_init(i, kwargs) == VoatObject_init(PyObject("Comment", i, NoAttrs), kwargs)

---------------------------------------------------------------------------
(* Submission.from_dict.                                                   *)

\* dict_get as "json_data.get(key) or default": a falsy value gives the default
dict_get_or(d, key, default) ==
    IF key \in DOMAIN d /\ Truthy(d[key]) THEN d[key] ELSE default

\* json_data.get(key, default)
dict_get(d, key, default) == IF key \in DOMAIN d THEN d[key] ELSE default

\* A date str is written as chunks: the stamp, then "." and the fraction.
Stamp == "2015-06-01T12:00:00"

\* date.split(".")[0]
RECURSIVE BeforeDot(_)
BeforeDot(x) ==
    IF x = <<>> \/ x[1] = "." THEN <<>> ELSE <<x[1]>> \o BeforeDot(Tail(x))

\* datetime.strptime(x, "%Y-%m-%dT%H:%M:%S") returns (TRUE) or raises ValueError
strptime_ok(x) == x = <<Stamp>>

Submission_from_dict(json_data, voat_instance, i, time) ==
    LET arg == [t |-> "dict", v |-> json_data, voat |-> voat_instance]
        got == dict_get(json_data, "date", None)
        date == IF Truthy(got) THEN got ELSE None
    IN  IF date # None /\ ~strptime_ok(BeforeDot(date.v))
        THEN [self |-> None, out |-> Raised("from_dict", arg, "ValueError", NoCall, time)]
        ELSE [self |-> Submission_init(i,
                        << <<"title", dict_get(json_data, "title", PyStr(<<>>))>>,
                           <<"content", dict_get(json_data, "content", PyStr(<<>>))>>,
                           <<"comments", None>>,
                           <<"author", dict_get(json_data, "userName", PyStr(<<>>))>>,
                           <<"post_id", dict_get(json_data, "id", PyInt(-1))>>,
                           <<"subverse", dict_get(json_data, "subverse", PyStr(<<>>))>>,
                           <<"karma", dict_get(json_data, "upVotes", PyInt(-1))>>,
                           <<"views", dict_get(json_data, "views", PyInt(-1))>>,
                           <<"date", date>>,
                           <<"voat", voat_instance>>,
                           <<"is_url", PyBool(Truthy(dict_get(json_data, "url", None)))>> >>),
              out |-> Returned("from_dict", arg, None, NoCall, time)]

---------------------------------------------------------------------------
(* The lazy relations.  resp is what the call on the Voat handle answers   *)
(* if it is made: it returns a value or raises.  fresh is the identity of the *)
(* object created by the access (the list fetched, the default list, the   *)
(* placeholder).  Each operator gives the object afterwards and the        *)
(* outcome.                                                                *)

Stamped(v, i) == IF v.t \in {"list", "object"} THEN [v EXCEPT !.id = i] ELSE v

\* Unresolved that never finds a stored result: no memoization
Unresolved_always(obj, field) == TRUE

\* Unresolved as "if not self._x": an empty stored list counts as unresolved
Unresolved_falsy(obj, field) == ~Truthy(getattr(obj, field, None))

\* getattr(self, field, None) is None: the relation is not resolved
Unresolved(obj, field) == getattr(obj, field, None) = None

\* HasHandle as hasattr(self, "voat"): voat=None counts as a handle
HasHandle_present(obj) == hasattr(obj, "voat")

\* getattr(self, "voat", None) is not None
HasHandle(obj) == getattr(obj, "voat", None) # None

\* Submission.comments that swallows a failed fetch and stores an empty list
Submission_comments_swallow(obj, resp, fresh, time) ==
    IF getattr(obj, "_comments", None) = None
    THEN LET call == <<"fetch_comments", getattr(obj, "post_id", PyInt(0)),
                       getattr(obj, "subverse", None), resp>>
             v == IF getattr(obj, "voat", None) # None /\ resp.kind = "return"
                  THEN [resp.value EXCEPT !.id = fresh]
                  ELSE PyList(fresh, <<>>)
         IN  [self |-> setfield(obj, "_comments", v),
              out |-> Returned("comments", None, v,
                               IF getattr(obj, "voat", None) # None THEN call ELSE NoCall,
                               time)]
    ELSE [self |-> obj,
          out |-> Returned("comments", None, obj._attrs["_comments"], NoCall, time)]

\* Submission.comments (getter)
Submission_comments(obj, resp, fresh, time) ==
    IF Unresolved(obj, "_comments")
    THEN IF HasHandle(obj)
         THEN LET call == <<"fetch_comments", getattr(obj, "post_id", PyInt(0)),
                            getattr(obj, "subverse", None), resp>>
              IN  IF resp.kind = "raise"
                  THEN [self |-> obj,
                        out |-> Raised("comments", None, resp.exc, call, time)]
                  ELSE LET v == Stamped(resp.value, fresh)
                       IN  [self |-> setfield(obj, "_comments", v),
                            out |-> Returned("comments", None, v, call, time)]
         ELSE LET v == PyList(fresh, <<>>)
              IN  [self |-> setfield(obj, "_comments", v),
                   out |-> Returned("comments", None, v, NoCall, time)]
    ELSE [self |-> obj,
          out |-> Returned("comments", None, obj._attrs["_comments"], NoCall, time)]

\* Subverse.posts (getter)
Subverse_posts(obj, resp, fresh, time) ==
    IF Unresolved(obj, "_posts")
    THEN IF HasHandle(obj)
         THEN IF ~hasattr(obj, "name")
              THEN [self |-> obj,
                    out |-> Raised("posts", None, "AttributeError", NoCall, time)]
              ELSE LET call == <<"get_subverse_posts", obj._attrs["name"], resp>>
                   IN  IF resp.kind = "raise"
                       THEN [self |-> obj,
                             out |-> Raised("posts", None, resp.exc, call, time)]
                       ELSE LET v == Stamped(resp.value, fresh)
                            IN  [self |-> setfield(obj, "_posts", v),
                                 out |-> Returned("posts", None, v, call, time)]
         ELSE LET v == PyList(fresh, <<>>)
              IN  [self |-> setfield(obj, "_posts", v),
                   out |-> Returned("posts", None, v, NoCall, time)]
    ELSE [self |-> obj,
          out |-> Returned("posts", None, obj._attrs["_posts"], NoCall, time)]

\* self.__class__(): an object of the class with no attribute
Placeholder(obj, fresh) == PyObject(obj.cls, fresh, NoAttrs)

\* the failure of get_comment stored as None instead of a placeholder
ParentOnFailure_none(obj, fresh) == None

\* what Comment.parent stores when get_comment raises (the bare except)
ParentOnFailure(obj, fresh) == Placeholder(obj, fresh)

\* Comment.parent
Comment_parent(obj, resp, fresh, time) ==
    IF Unresolved(obj, "_parent")
    THEN IF HasHandle(obj) /\ getattr(obj, "parent_id", None) # None
         THEN LET call == <<"get_comment", obj._attrs["parent_id"], resp>>
                  v == IF resp.kind = "raise" THEN ParentOnFailure(obj, fresh)
                       ELSE Stamped(resp.value, fresh)
              IN  [self |-> setfield(obj, "_parent", v),
                   out |-> Returned("parent", None, v, call, time)]
         ELSE LET v == Placeholder(obj, fresh)
              IN  [self |-> setfield(obj, "_parent", v),
                   out |-> Returned("parent", None, v, NoCall, time)]
    ELSE [self |-> obj,
          out |-> Returned("parent", None, obj._attrs["_parent"], NoCall, time)]

\* IsChild comparing the fetched comment's own id
IsChild_own_id(i, obj) == getattr(i, "comment_id", None) = obj._attrs["comment_id"]

\* the test of the list comprehension: getattr(i, "parent_id", None) == self.comment_id
IsChild(i, obj) == getattr(i, "parent_id", None) = obj._attrs["comment_id"]

\* [i for i in comments if ...]
RECURSIVE Filter(_, _)
Filter(comments, obj) ==
    IF comments = <<>> THEN <<>>
    ELSE (IF IsChild(comments[1], obj) THEN <<comments[1]>> ELSE <<>>)
         \o Filter(Tail(comments), obj)

\* Comment.children
Comment_children(obj, resp, fresh, time) ==
    IF Unresolved(obj, "_children")
    THEN IF getattr(obj, "submission_id", None) # None /\ HasHandle(obj)
         THEN LET call == <<"fetch_comments", obj._attrs["submission_id"],
                            getattr(obj, "subverse", None), resp>>
              IN  IF resp.kind = "raise"
                  THEN [self |-> obj,
                        out |-> Raised("children", None, resp.exc, call, time)]
                  ELSE IF resp.value.t # "list"
                  THEN [self |-> obj,
                        out |-> Raised("children", None, "TypeError", call, time)]
                  ELSE IF resp.value.v # <<>> /\ ~hasattr(obj, "comment_id")
                  THEN [self |-> obj,
                        out |-> Raised("children", None, "AttributeError", call, time)]
                  ELSE LET v == PyList(fresh, Filter(resp.value.v, obj))
                       IN  [self |-> setfield(obj, "_children", v),
                            out |-> Returned("children", None, v, call, time)]
         ELSE LET v == PyList(fresh, <<>>)
              IN  [self |-> setfield(obj, "_children", v),
                   out |-> Returned("children", None, v, NoCall, time)]
    ELSE [self |-> obj,
          out |-> Returned("children", None, obj._attrs["_children"], NoCall, time)]

---------------------------------------------------------------------------
(* What the Voat handle may answer, and what callers may supply.           *)

Return(v) == [kind |-> "return", value |-> v, exc |-> ""]
Raise(e) == [kind |-> "raise", value |-> None, exc |-> e]

\* a comment as the handle builds it; parent absent: no parent_id attribute
Fetched(comment_id, parent) ==
    Comment_init(Supplied, << <<"comment_id", PyInt(comment_id)>> >> \o parent)
Parent(v) == << <<"parent_id", v>> >>

Ca == Fetched(11, Parent(PyInt(1)))
Cb == Fetched(12, Parent(PyInt(2)))
Cc == Fetched(13, <<>>)
Cd == Fetched(14, Parent(None))
Ce == Fetched(15, Parent(PyInt(1)))

CommentLists == {<<>>, <<Cb>>, <<Ca, Cb, Ce>>, <<Ce, Cc, Cd, Ca>>}

FetchCommentsResponses ==
    {Raise("HTTPError"), Return(None)} \cup {Return(PyList(Supplied, l)) : l \in CommentLists}

Post == Submission_init(Supplied, << <<"post_id", PyInt(7)>> >>)

GetSubversePostsResponses ==
    {Raise("HTTPError"), Return(None), Return(PyList(Supplied, <<>>)),
     Return(PyList(Supplied, <<Post>>))}

GetCommentResponses == {Raise("HTTPError"), Return(None), Return(Ca)}

\* values assigned to comments and posts
AssignedValues == {None, PyList(Supplied, <<>>), PyList(Supplied, <<Cb>>)}

\* keyword arguments: each name absent or given one of the values
Opt(name, values) == {<<>>} \cup {<< <<name, v>> >> : v \in values}
Req(name, values) == {<< <<name, v>> >> : v \in values}

SubmissionKwargs ==
    {h \o c \o p : h \in Opt("voat", {None, Voat}),
                   c \in Opt("comments", AssignedValues),
                   p \in {<<>>, << <<"post_id", PyInt(7)>>, <<"subverse", PyStr(<<"s">>)>> >>}}

SubverseKwargs ==
    {h \o n \o p : h \in Opt("voat", {None, Voat}),
                   n \in Opt("name", {PyStr(<<"s">>)}),
                   p \in Opt("posts", {PyList(Supplied, <<Post>>)})}

CommentKwargs ==
    {h \o c \o p \o x : h \in Opt("voat", {None, Voat}),
                        c \in Req("comment_id", {PyInt(1), PyInt(2)}),
                        p \in Opt("parent_id", {None, PyInt(11)}),
                        x \in Opt("submission_id", {None, PyInt(7)})}

---------------------------------------------------------------------------
(* Operations on the entities.                                             *)

IsA(cls) == self.t = "object" /\ self.cls = cls /\ Len(history) < MaxOps

\* the identity fresh was taken by the value returned
Allocated(out, fresh) ==
    out.kind = "return" /\ out.value.t \in {"list", "object"} /\ out.value.id = fresh

Done(r) ==
    /\ self' = r.self
    /\ history' = Append(history, r.out)
    /\ nextId' = IF Allocated(r.out, nextId) THEN nextId + 1 ELSE nextId
    /\ UNCHANGED now

Kwargs(k) == [t |-> "kwargs", v |-> k]

NewSubmission ==
    /\ history = <<>>
    /\ \E k \in SubmissionKwargs :
         /\ self' = Submission_init(nextId, k)
         /\ history' = <<Returned("Submission", Kwargs(k), None, NoCall, now)>>
    /\ nextId' = nextId + 1
    /\ UNCHANGED now

NewSubverse ==
    /\ history = <<>>
    /\ \E k \in SubverseKwargs :
         /\ self' = Subverse_init(nextId, k)
         /\ history' = <<Returned("Subverse", Kwargs(k), None, NoCall, now)>>
    /\ nextId' = nextId + 1
    /\ UNCHANGED now

NewComment ==
    /\ history = <<>>
    /\ \E k \in CommentKwargs :
         /\ self' = Comment_init(nextId, k)
         /\ history' = <<Returned("Comment", Kwargs(k), None, NoCall, now)>>
    /\ nextId' = nextId + 1
    /\ UNCHANGED now

SubmissionFromDict(payloads) ==
    /\ history = <<>>
    /\ \E json_data \in payloads, voat_instance \in {None, Voat} :
         LET r == Submission_from_dict(json_data, voat_instance, nextId, now)
         IN  /\ self' = r.self
             /\ history' = <<r.out>>
    /\ nextId' = nextId + 1
    /\ UNCHANGED now

CommentsGet ==
    /\ IsA("Submission")
    /\ \E resp \in FetchCommentsResponses : Done(Submission_comments(self, resp, nextId, now))

CommentsSet ==
    /\ IsA("Submission")
    /\ \E val \in AssignedValues :
         /\ self' = Submission_comments_set(self, val)
         /\ history' = Append(history, Returned("comments=", val, None, NoCall, now))
    /\ UNCHANGED <<now, nextId>>

PostsGet ==
    /\ IsA("Subverse")
    /\ \E resp \in GetSubversePostsResponses : Done(Subverse_posts(self, resp, nextId, now))

PostsSet ==
    /\ IsA("Subverse")
    /\ \E val \in AssignedValues :
         /\ self' = Subverse_posts_set(self, val)
         /\ history' = Append(history, Returned("posts=", val, None, NoCall, now))
    /\ UNCHANGED <<now, nextId>>

ParentGet ==
    /\ IsA("Comment")
    /\ \E resp \in GetCommentResponses : Done(Comment_parent(self, resp, nextId, now))

ChildrenGet ==
    /\ IsA("Comment")
    /\ \E resp \in FetchCommentsResponses : Done(Comment_children(self, resp, nextId, now))

Init ==
    /\ now = 0
    /\ self = None
    /\ history = <<>>
    /\ nextId = 1

NextAuth == Tick \/ AuthTokenInit \/ TokenGet \/ TokenSet \/ HeadersGet

SpecAuth == Init /\ [][NextAuth]_vars

\* payloads of from_dict for the entities whose relations are exercised
SmallPayloads ==
    {[x \in {} |-> None],
     [id |-> PyInt(7), subverse |-> PyStr(<<"s">>)]}

NextLazy ==
    \/ NewSubmission \/ SubmissionFromDict(SmallPayloads) \/ NewSubverse \/ NewComment
    \/ CommentsGet \/ CommentsSet \/ PostsGet \/ PostsSet \/ ParentGet \/ ChildrenGet

SpecLazy == Init /\ [][NextLazy]_vars

---------------------------------------------------------------------------
(* Submission.from_dict over the payloads: every field absent or present.  *)

Extend(f, key, val) == [k \in (DOMAIN f) \cup {key} |-> IF k = key THEN val ELSE f[k]]

PayloadFields ==
    << <<"title", {PyStr(<<"T">>)}>>,
       <<"content", {PyStr(<<"C">>)}>>,
       <<"userName", {PyStr(<<"u">>)}>>,
       <<"id", {PyInt(7), None}>>,
       <<"subverse", {PyStr(<<"s">>)}>>,
       <<"upVotes", {PyInt(5)}>>,
       <<"views", {PyInt(9)}>>,
       <<"date", {None, PyStr(<<>>), PyStr(<<Stamp>>), PyStr(<<Stamp, ".", "25">>),
                  PyStr(<<"yesterday">>)}>>,
       <<"url", {None, PyStr(<<>>), PyStr(<<"h">>)}>> >>

RECURSIVE PayloadsOver(_)
PayloadsOver(fields) ==
    IF fields = <<>> THEN {[x \in {} |-> None]}
    ELSE LET rest == PayloadsOver(Tail(fields))
         IN  rest \cup {Extend(f, fields[1][1], v) : f \in rest, v \in fields[1][2]}

FullPayloads == PayloadsOver(PayloadFields)

NextFromDict == SubmissionFromDict(FullPayloads)

SpecFromDict == Init /\ [][NextFromDict]_vars

---------------------------------------------------------------------------
(* Properties of AuthToken (checked under SpecAuth).                       *)

\* an AuthToken was constructed
Constructed ==
    /\ history # <<>>
    /\ history[1].op = "__init__"
    /\ history[1].kind = "return"

\* the integer an accepted expiry_date stands for, written out
ExpiryOf(e) ==
    IF e.t = "int" THEN e.v
    ELSE IF e.v = <<"2">> \/ e.v = <<"0", "2">> THEN 2
    ELSE IF e.v = <<"2", "0">> THEN 20
    ELSE 0

\* the instant the token of the constructed AuthToken stops being readable
Deadline == history[1].at + ExpiryOf(history[1].arg.v.expiry_date)

\* the token assigned most recently before operation i (i >= 2): by the
\* setter, or else by the constructor
RECURSIVE AssignedBefore(_)
AssignedBefore(i) ==
    IF history[i - 1].op = "token=" THEN history[i - 1].arg
    ELSE IF i - 1 = 1 THEN history[1].arg.v.token
    ELSE AssignedBefore(i - 1)

TokenReads == {i \in 1..Len(history) : history[i].op = "token"}

\* C1: whatever reads and assignments came before, a read of token at time
\* now raises VoatExpiredToken if and only if now >= gotten_at + expiry_date
\* and otherwise returns the value assigned most recently; assignments leave
\* gotten_at and expiry_date as the constructor set them; and once a read
\* has raised, every later read raises.
C1_TokenReadContract ==
    Constructed =>
        /\ self.gotten_at = history[1].at
        /\ self.expiry_date = PyInt(ExpiryOf(history[1].arg.v.expiry_date))
        /\ \A i \in TokenReads :
             IF history[i].at >= Deadline
             THEN history[i].kind = "raise" /\ history[i].exc = "VoatExpiredToken"
             ELSE history[i].kind = "return" /\ history[i].value = AssignedBefore(i)
        /\ \A i, j \in TokenReads :
             i < j /\ history[i].kind = "raise" => history[j].kind = "raise"

\* C1 witness: a token is assigned, read back before the deadline, and a
\* later read raises
C1_Witness ==
    /\ Constructed
    /\ \E i, j \in TokenReads :
         /\ i < j
         /\ history[i - 1].op = "token="
         /\ history[i].kind = "return"
         /\ history[i].value = history[i - 1].arg
         /\ history[i].value # history[1].arg.v.token
         /\ history[j].kind = "raise"

\* a string made only of the digits 0..9 (of the characters offered, 0 and 2)
DigitOnly(x) == x # <<>> /\ \A i \in 1..Len(x) : x[i] \in {"0", "2"}

\* C3: the constructor raises VoatBadExpiry and builds nothing for every
\* expiry_date that is neither an int nor a string made only of digits, and
\* for an int or a string of digits it succeeds and stores the integer.
C3_ExpiryValidation ==
    (history # <<>> /\ history[1].op = "__init__") =>
        LET e == history[1].arg.v.expiry_date
        IN  IF e.t = "int" \/ (e.t = "str" /\ DigitOnly(e.v))
            THEN /\ history[1].kind = "return"
                 /\ self.t = "AuthToken"
                 /\ self.expiry_date = PyInt(ExpiryOf(e))
            ELSE /\ history[1].kind = "raise"
                 /\ history[1].exc = "VoatBadExpiry"
                 /\ self = None

\* the capitalized token types, written out
Capitalized(tt) ==
    IF tt = <<"b", "e", "a", "r", "e", "r">> THEN <<"B", "e", "a", "r", "e", "r">>
    ELSE <<"B", "e", "a", "r">>

HeaderReads == {i \in 1..Len(history) : history[i].op = "headers"}

\* C7: headers gives {"Authorization": capitalized token type, one space,
\* the token} whenever the token is not expired, and raises VoatExpiredToken,
\* giving no header, whenever now >= gotten_at + expiry_date.
C7_HeadersContract ==
    Constructed =>
        \A i \in HeaderReads :
            IF history[i].at >= Deadline
            THEN /\ history[i].kind = "raise"
                 /\ history[i].exc = "VoatExpiredToken"
                 /\ history[i].value = None
            ELSE /\ history[i].kind = "return"
                 /\ history[i].value =
                       [t |-> "dict",
                        v |-> [Authorization |->
                                 PyStr(Capitalized(history[1].arg.v.token_type.v)
                                       \o <<" ">> \o AssignedBefore(i).v)]]

\* C7 witness: a header built for an upper-case token type from a token
\* assigned after construction, and later a headers access that raises
C7_Witness ==
    /\ Constructed
    /\ history[1].arg.v.token_type.v = <<"B", "E", "A", "R">>
    /\ \E i, j \in HeaderReads :
         /\ i < j
         /\ history[i - 1].op = "token="
         /\ history[i].kind = "return"
         /\ history[j].kind = "raise"

---------------------------------------------------------------------------
(* Properties of the lazy relations (checked under SpecLazy).              *)

IsEntity == self.t = "object"

\* an API handle is attached / is not (voat absent, or None)
HandleAttached == IsEntity /\ hasattr(self, "voat") /\ self._attrs["voat"] = Voat
NoHandleAttached == IsEntity /\ (~hasattr(self, "voat") \/ self._attrs["voat"] = None)

Relations == {"comments", "posts", "parent", "children"}

\* the attribute a relation is stored in, and the operation that assigns it
Field(r) ==
    CASE r = "comments" -> "_comments"
      [] r = "posts" -> "_posts"
      [] r = "parent" -> "_parent"
      [] r = "children" -> "_children"

Setter(r) ==
    CASE r = "comments" -> "comments="
      [] r = "posts" -> "posts="
      [] OTHER -> "no setter"

Accesses(r) == {i \in 2..Len(history) : history[i].op = r}

\* relation r is assigned by an operation strictly between i and j
AssignedBetween(r, i, j) == \E k \in (i + 1)..(j - 1) : history[k].op = Setter(r)

\* relation r is accessed strictly between i and j
AccessedBetween(r, i, j) == \E k \in (i + 1)..(j - 1) : history[k].op = r

\* operation i called the handle; what the handle answered
MadeCall(i) == history[i].call # NoCall
Answer(i) == history[i].call[Len(history[i].call)]

\* the keyword arguments of the constructor give name
Supplies(name) ==
    /\ history[1].arg.t = "kwargs"
    /\ \E n \in 1..Len(history[1].arg.v) : history[1].arg.v[n][1] = name

\* C2 as stated: with a handle attached and nothing but accesses, once an
\* access of a relation has returned, whatever the value, no later access of
\* it calls the handle and every later access returns the identical value.
C2_FetchOnceWhateverReturned ==
    HandleAttached =>
        \A r \in Relations : \A i, j \in Accesses(r) :
            (i < j /\ ~AssignedBetween(r, 1, j) /\ history[i].kind = "return")
            => /\ ~MadeCall(j)
               /\ history[j].kind = "return"
               /\ history[j].value = history[i].value

\* C2 amended: the same once an access has returned a value other than None;
\* and an access that returned None (the handle's answer) is followed by an
\* access that calls the handle again.
C2_FetchOnceUnlessNone ==
    HandleAttached =>
        \A r \in Relations : \A i, j \in Accesses(r) :
            (i < j /\ ~AssignedBetween(r, 1, j) /\ history[i].kind = "return")
            => IF history[i].value # None
               THEN /\ ~MadeCall(j)
                    /\ history[j].kind = "return"
                    /\ history[j].value = history[i].value
               ELSE MadeCall(i) /\ (~AccessedBetween(r, i, j) => MadeCall(j))

\* C2 witness: a fetched, non-empty result is returned again by a second
\* access that makes no call
C2_Witness ==
    /\ HandleAttached
    /\ \E r \in Relations : \E i, j \in Accesses(r) :
         /\ i < j
         /\ MadeCall(i)
         /\ history[i].kind = "return"
         /\ history[i].value.t = "list"
         /\ history[i].value.v # <<>>
         /\ ~MadeCall(j)
         /\ history[j].value = history[i].value

\* an empty placeholder Comment: no handle, no fields
IsPlaceholder(v) == v.t = "object" /\ v.cls = "Comment" /\ v._attrs = NoAttrs

\* C4: when get_comment fails during an access of Comment.parent, the access
\* returns an empty placeholder Comment, which is stored, and every later
\* access returns the same placeholder without calling get_comment.
C4_ParentFailureGivesPlaceholder ==
    \A i \in Accesses("parent") :
        (MadeCall(i) /\ Answer(i).kind = "raise")
        => /\ history[i].kind = "return"
           /\ IsPlaceholder(history[i].value)
           /\ self._attrs["_parent"] = history[i].value
           /\ \A j \in Accesses("parent") :
                j > i => ~MadeCall(j) /\ history[j].value = history[i].value

\* C4 witness: get_comment failed, and a later access returned the placeholder
C4_Witness ==
    \E i, j \in Accesses("parent") :
        /\ i < j
        /\ MadeCall(i)
        /\ Answer(i).kind = "raise"
        /\ history[j].value = history[i].value

\* the first access of relation r, nothing having been assigned to it
FirstAccess(r, i) ==
    /\ i \in Accesses(r)
    /\ ~AccessedBetween(r, 1, i)
    /\ ~AssignedBetween(r, 1, i)
    /\ ~(r = "posts" /\ Supplies("posts"))

EmptyDefault(r, v) ==
    IF r = "parent" THEN IsPlaceholder(v) ELSE v.t = "list" /\ v.v = <<>>

ExpectedChildren(fetched) ==
    LET keep == {k \in 1..Len(fetched) :
                    /\ hasattr(fetched[k], "parent_id")
                    /\ fetched[k]._attrs["parent_id"] = self._attrs["comment_id"]}
        nth(n) == CHOOSE k \in keep : Cardinality({m \in keep : m <= k}) = n
    IN  [n \in 1..Cardinality(keep) |-> fetched[nth(n)]]

C9_FetchFailurePropagates ==
    /\ \A r \in {"comments", "posts", "children"} : \A i \in Accesses(r) :
         (MadeCall(i) /\ Answer(i).kind = "raise")
         => /\ history[i].kind = "raise"
            /\ history[i].exc = Answer(i).exc
            /\ i = Len(history) => getattr(self, Field(r), None) = None
            /\ \A j \in Accesses(r) :
                 (j > i /\ ~AccessedBetween(r, i, j) /\ ~AssignedBetween(r, i, j))
                 => MadeCall(j)
    /\ \A i \in Accesses("parent") :
         (MadeCall(i) /\ Answer(i).kind = "raise")
         => /\ history[i].kind = "return"
            /\ self._attrs["_parent"] = history[i].value

\* C9 witness: the fetch of comments failed and the next access fetched
\* again and returned the list
C9_Witness ==
    \E i, j \in Accesses("comments") :
        /\ j = i + 1
        /\ MadeCall(i)
        /\ history[i].kind = "raise"
        /\ MadeCall(j)
        /\ history[j].kind = "return"
        /\ history[j].value.t = "list"

\* a Submission was constructed, directly or through from_dict
SubmissionBuilt ==
    /\ history # <<>>
    /\ history[1].op \in {"Submission", "from_dict"}
    /\ history[1].kind = "return"

\* the caller's object: a list with the identity of the supplied objects
IsSupplied(v) == v.t = "list" /\ v.id = Supplied

\* the operation that assigned comments last before operation j (0: none)
LastAssignment(j) ==
    IF \E k \in 2..(j - 1) : history[k].op = "comments="
    THEN CHOOSE k \in 2..(j - 1) :
            /\ history[k].op = "comments="
            /\ ~AssignedBetween("comments", k, j)
    ELSE 0

\* right after construction comments is unresolved whatever was supplied: the
\* first access fetches if a handle is attached and else gives a new empty
\* list, and never the list supplied
UnresolvedAfterConstruction ==
    /\ Len(history) = 1 => self._attrs["_comments"] = None
    /\ (Len(history) >= 2 /\ history[2].op = "comments")
       => /\ HandleAttached => MadeCall(2)
          /\ NoHandleAttached
               => /\ ~MadeCall(2)
                  /\ history[2].value.t = "list"
                  /\ history[2].value.v = <<>>
          /\ ~IsSupplied(history[2].value)

\* C10 as stated: ... and a supplied value is returned by an access only if
\* it was assigned after construction and is not empty.
C10_OnlyNonEmptyAssignments ==
    SubmissionBuilt =>
        /\ UnresolvedAfterConstruction
        /\ \A j \in Accesses("comments") :
             IsSupplied(history[j].value)
             => /\ ~MadeCall(j)
                /\ LastAssignment(j) # 0
                /\ history[LastAssignment(j)].arg = history[j].value
                /\ history[j].value.v # <<>>

\* C10 amended: ... and a supplied value is returned by an access only if it
\* was assigned after construction; every assigned value other than None,
\* the empty list included, is what the next access returns without a fetch.
C10_NonNoneAssignments ==
    SubmissionBuilt =>
        /\ UnresolvedAfterConstruction
        /\ \A j \in Accesses("comments") :
             /\ IsSupplied(history[j].value)
                => /\ ~MadeCall(j)
                   /\ LastAssignment(j) # 0
                   /\ history[LastAssignment(j)].arg = history[j].value
             /\ (LastAssignment(j) # 0 /\ history[LastAssignment(j)].arg # None
                 /\ ~AccessedBetween("comments", LastAssignment(j), j))
                => /\ ~MadeCall(j)
                   /\ history[j].kind = "return"
                   /\ history[j].value = history[LastAssignment(j)].arg

\* C10 witness: a Submission built with a supplied list and a handle; the
\* first access fetched, then an empty list was assigned and returned without
\* a fetch
C10_Witness ==
    /\ SubmissionBuilt
    /\ HandleAttached
    /\ Supplies("comments")
    /\ Len(history) = 4
    /\ history[2].op = "comments"
    /\ MadeCall(2)
    /\ history[3].op = "comments="
    /\ history[3].arg = PyList(Supplied, <<>>)
    /\ history[4].op = "comments"
    /\ ~MadeCall(4)
    /\ history[4].value = PyList(Supplied, <<>>)

---------------------------------------------------------------------------
(* Properties of Submission.from_dict (checked under SpecFromDict).        *)

============================================================================
